---------------------------- MODULE Spec2Model ----------------------------
(*
  Model of analyze_wrapped_stats (src/app.py, lines 54-159): the statistics
  aggregation over a list of Strava activity records.

  Units.  Timestamps are minutes since 2024-12-01T00:00Z; a calendar date is a
  day number since 2024-12-01.  Distances are metres and times are seconds, as
  in the input; the source's kilometre values x / 1000 are kept as the metre
  numerator x, and the source's round(x, n) values are kept as integers in
  units of 10^-n.

  A record is a function from field names to values; a field the record lacks
  is outside its DOMAIN (Python raises KeyError on a[...] for it).
  A start_date string is [iso, utc]: iso says whether datetime.fromisoformat
  accepts the string, utc is the instant it denotes.
*)
EXTENDS Integers, Sequences, FiniteSets, TLC

VARIABLES
    activities,          \* the argument of analyze_wrapped_stats
    pc,                  \* position in analyze_wrapped_stats
    runs,                \* line 74
    ist_runs,            \* lines 81-86
    total_distance,      \* line 89, in metres (the source's km value * 1000)
    total_time,          \* line 90, seconds
    total_activities,    \* line 91
    monthly_stats,       \* lines 94-99, entries in insertion order
    fastest_run,         \* line 102, index into ist_runs (0: not yet selected)
    longest_run,         \* line 103, index into ist_runs (0: not yet selected)
    early_morning_runs,  \* line 106, indices into ist_runs
    night_runs,          \* line 107, indices into ist_runs
    dates,               \* line 110
    i,                   \* line 115, 1-based (the source's i + 1)
    current_streak,      \* line 111
    max_streak,          \* line 112
    temp_streak,         \* line 113
    today,               \* line 126
    favorite_day,        \* line 132
    result,              \* what the call produced: pending, None, stats or an exception
    given,               \* the list as the caller passed it (never written)
    first                \* what an earlier call on the same list produced

statsVars == <<activities, pc, runs, ist_runs, total_distance, total_time,
               total_activities, monthly_stats, fastest_run, longest_run,
               early_morning_runs, night_runs, dates, i, current_streak,
               max_streak, temp_streak, today, favorite_day, result>>

callerVars == <<given, first>>

\* The token and fetch functions of src/app.py, lines 161-293
VARIABLES
    session,             \* the Flask session's token keys
    now,                 \* time.time() at the entry of get_all_activities
    fpc,                 \* position in get_all_activities
    token,               \* line 243 / 262; 0 is None
    headers,             \* lines 248 / 263: the bearer token sent
    page,                \* line 250
    all_activities,      \* line 249
    response,            \* lines 256 / 264
    gets,                \* GET requests issued for the current page
    refreshes,           \* refresh_access_token calls made for the current page
    tok_call,            \* what the call of get_valid_access_token just made did
    ref_call,            \* what the call of refresh_access_token just made did
    fetch_result         \* what get_all_activities produced

fetchVars == <<session, now, fpc, token, headers, page, all_activities,
               response, gets, refreshes, tok_call, ref_call, fetch_result>>

\* get_stats_page of src/app.py, lines 928-1000
VARIABLES
    ppc,                 \* position in get_stats_page
    page_activities,     \* line 921: what get_all_activities returned
    runs_2025,           \* lines 930-934
    table_rows           \* lines 941-996: the rows made so far

pageVars == <<ppc, page_activities, runs_2025, table_rows>>

\* The "Longest Streak" loop of src/dashboard.py, lines 423-441
VARIABLES
    dpc,                 \* position in the loop
    dash_dates,          \* line 426 (dates)
    dash_i,              \* line 430 (i), 1-based: the source's i + 1
    dash_current_streak, \* line 427 (current_streak)
    dash_max_streak      \* line 428 (max_streak)

dashVars == <<dpc, dash_dates, dash_i, dash_current_streak, dash_max_streak>>

\* The users table of src/models.py
VARIABLES
    users,               \* the rows of the users table, by id
    utcnow               \* datetime.utcnow(), in minutes

userVars == <<users, utcnow>>

moreVars == <<pageVars, dashVars, userVars>>

\* what the steps of analyze_wrapped_stats leave alone
otherVars == <<callerVars, fetchVars, moreVars>>

vars == <<statsVars, callerVars, fetchVars, moreVars>>

-----------------------------------------------------------------------------
(* Bounds of the model *)

\* longest input list of the mixed family
MaxLen == 3
\* longest input list of the all-runs family used for the streak walk
MaxStreakLen == 4

-----------------------------------------------------------------------------
(* Calendar: what datetime does with an instant *)

MinutesPerDay == 24 * 60

\* timezone(timedelta(hours=5, minutes=30))
ist_timezone == 5 * 60 + 30

Has(r, f) == f \in DOMAIN r

\* Python's None for ist_date
None == [none |-> TRUE, local |-> 0]

\* utc_to_ist without the shift of line 66: the instant read as local time
utc_to_ist_unshifted(utc_datetime_str) ==
    IF utc_datetime_str.iso
    THEN [none |-> FALSE, local |-> utc_datetime_str.utc]
    ELSE None

\* utc_to_ist: fromisoformat raises ValueError on a malformed string, which is
\* caught and turned into None; otherwise the instant shifted to UTC+5:30.
utc_to_ist(utc_datetime_str) ==
    IF utc_datetime_str.iso
    THEN [none |-> FALSE, local |-> utc_datetime_str.utc + ist_timezone]
    ELSE None

\* datetime.date() of a local datetime, as a day number
DateOf(dt) == dt.local \div MinutesPerDay

\* datetime.hour
HourOf(dt) == (dt.local % MinutesPerDay) \div 60

\* datetime.minute
MinuteOf(dt) == dt.local % 60

IsLeap(y) == (y % 4 = 0 /\ y % 100 # 0) \/ y % 400 = 0

DaysInMonth(y, m) ==
    IF m = 2 THEN (IF IsLeap(y) THEN 29 ELSE 28)
    ELSE IF m \in {4, 6, 9, 11} THEN 30 ELSE 31

RECURSIVE CivilFrom(_, _, _)
CivilFrom(y, m, d) ==
    IF d < DaysInMonth(y, m) THEN [year |-> y, month |-> m, day |-> d + 1]
    ELSE IF m = 12 THEN CivilFrom(y + 1, 1, d - DaysInMonth(y, m))
    ELSE CivilFrom(y, m + 1, d - DaysInMonth(y, m))

\* year, month, day of a day number (day 0 is 2024-12-01)
Civil(day) == CivilFrom(2024, 12, day)

\* strftime('%Y-%m'): the string "YYYY-MM" as the pair it spells
MonthKey(dt) == <<Civil(DateOf(dt)).year, Civil(DateOf(dt)).month>>

\* strftime('%A'): 2024-12-01 was a Sunday
Weekday(dt) ==
    <<"Sunday", "Monday", "Tuesday", "Wednesday", "Thursday", "Friday",
      "Saturday">>[(DateOf(dt) % 7) + 1]

\* strftime('%d %b %Y, %I:%M %p IST'): the fields the string spells
LongDate(dt) ==
    [day |-> Civil(DateOf(dt)).day, month |-> Civil(DateOf(dt)).month,
     year |-> Civil(DateOf(dt)).year,
     hour12 |-> IF HourOf(dt) % 12 = 0 THEN 12 ELSE HourOf(dt) % 12,
     minute |-> MinuteOf(dt),
     ampm |-> IF HourOf(dt) < 12 THEN "AM" ELSE "PM"]

-----------------------------------------------------------------------------
(* Arithmetic helpers *)

\* round(num / den, n) in units of 10^-n, given num already scaled by 10^n:
\* the nearest integer to num / den, an exact half going to the even one
\* (Python's round).  den > 0, num >= 0.
Round(num, den) ==
    LET q == num \div den
        r == num % den
    IN  IF 2 * r < den THEN q
        ELSE IF 2 * r > den THEN q + 1
        ELSE IF q % 2 = 0 THEN q ELSE q + 1

RECURSIVE SumOver(_, _)
\* sum(run[f] for run in s)
SumOver(s, f) == IF s = <<>> THEN 0 ELSE s[1][f] + SumOver(Tail(s), f)

-----------------------------------------------------------------------------
(* Floating point: the doubles of line 97 *)

\* A km value is a double that is 0 or at least 2^-4 and below 2^14, written
\* as the integer number of units of 2^-56 it is, in five limbs of 14 bits,
\* least significant first.  Every double of that range is such an integer
\* with at most 53 significant bits.
LimbBase == 2 ^ 14

FZero == <<0, 0, 0, 0, 0>>

\* the limbs of a number whose limbs may have grown past LimbBase
Carry(x) ==
    LET l2 == x[2] + x[1] \div LimbBase
        l3 == x[3] + l2 \div LimbBase
        l4 == x[4] + l3 \div LimbBase
        l5 == x[5] + l4 \div LimbBase
    IN  <<x[1] % LimbBase, l2 % LimbBase, l3 % LimbBase, l4 % LimbBase, l5>>

\* the number of significant bits of a limb
LimbBits(l) == CHOOSE k \in 0..14 : l < 2 ^ k /\ (k = 0 \/ 2 ^ (k - 1) <= l)

\* the number of significant bits of F # FZero
BitLen(F) ==
    LET h == CHOOSE j \in 1..5 : F[j] # 0 /\ \A m \in (j + 1)..5 : F[m] = 0
    IN  14 * (h - 1) + LimbBits(F[h])

\* F modulo 2^s, for 1 <= s <= 17
LowBits(F, s) ==
    IF s <= 14 THEN F[1] % (2 ^ s)
    ELSE (F[2] % (2 ^ (s - 14))) * LimbBase + F[1]

\* F with its s lowest bits cleared, for 1 <= s <= 17
ClearLow(F, s) ==
    IF s <= 14 THEN [F EXCEPT ![1] = @ - (@ % (2 ^ s))]
    ELSE [F EXCEPT ![1] = 0, ![2] = @ - (@ % (2 ^ (s - 14)))]

\* bit s of F (bit 0 is the lowest)
BitAt(F, s) == (F[s \div 14 + 1] \div (2 ^ (s % 14))) % 2

\* F + 2^s
AddPow(F, s) == Carry([F EXCEPT ![s \div 14 + 1] = @ + 2 ^ (s % 14)])

\* The double nearest to F + r/1000 units (0 <= r < 1000), an exact half
\* going to the even mantissa (IEEE 754 round-to-nearest-even): F keeps its 53
\* highest bits.
Round53(F, r) ==
    LET s == BitLen(F) - 53
    IN  IF s = 0
        THEN (IF 2 * r > 1000 \/ (2 * r = 1000 /\ F[1] % 2 = 1)
              THEN AddPow(F, 0) ELSE F)
        ELSE LET low == LowBits(F, s)
                 half == 2 ^ (s - 1)
                 up == \/ low > half
                       \/ low = half /\ r > 0
                       \/ low = half /\ r = 0 /\ BitAt(F, s) = 1
                 cut == ClearLow(F, s)
             IN  IF up THEN AddPow(cut, s) ELSE cut

\* n / 1000 in double arithmetic, for an integer n that is 0 or from 63 up:
\* long division to 56 binary places, then rounding
FDivThousand(n) ==
    IF n = 0 THEN FZero
    ELSE LET r0 == n % 1000
             q4 == (r0 * LimbBase) \div 1000
             r1 == (r0 * LimbBase) % 1000
             q3 == (r1 * LimbBase) \div 1000
             r2 == (r1 * LimbBase) % 1000
             q2 == (r2 * LimbBase) \div 1000
             r3 == (r2 * LimbBase) % 1000
             q1 == (r3 * LimbBase) \div 1000
             r4 == (r3 * LimbBase) % 1000
         IN  Round53(<<q1, q2, q3, q4, n \div 1000>>, r4)

\* a + b in double arithmetic
FAdd(a, b) ==
    IF a = FZero THEN b
    ELSE IF b = FZero THEN a
    ELSE Round53(Carry([j \in 1..5 |-> a[j] + b[j]]), 0)

-----------------------------------------------------------------------------
(* Inputs: the records a call may be given *)

Stamp(utc) == [iso |-> TRUE, utc |-> utc]

\* a start_date string datetime.fromisoformat rejects
BadStamp == [iso |-> FALSE, utc |-> 0]

\* minutes of day `day` at hh:mm UTC
At(day, hh, mm) == day * MinutesPerDay + hh * 60 + mm

Activity(type, start_date, distance, moving_time, name) ==
    [type |-> type, start_date |-> start_date, distance |-> distance,
     moving_time |-> moving_time, name |-> name]

\* the record r without field f
Without(r, f) == [k \in DOMAIN r \ {f} |-> r[k]]

\* Instants of the mixed family: 2025-01-10 01:00Z (06:30 IST).
MixedStamps == {At(40, 1, 0)}

\* Distances (m) and moving times (s) of the mixed family.  The values are such
\* that the source's float quotients are exact, two different runs can have
\* the same pace, and the run of least moving time need not be the one of
\* least pace.
Distances == {0, 5000, 10000}

MovingTimes == {1500, 2000, 3000}

WellFormedRuns ==
    {Activity("Run", Stamp(s), d, t, "run") :
        s \in MixedStamps, d \in Distances, t \in MovingTimes}

OtherActivities == {Activity("Ride", Stamp(At(40, 1, 0)), 20000, 3600, "ride")}

\* Records with a data-shape problem: a start_date that does not parse, or one
\* field missing.
DefectiveRecords ==
    LET r == Activity("Run", Stamp(At(40, 1, 0)), 5000, 1500, "run")
    IN  {[r EXCEPT !.start_date = BadStamp]}
        \cup {Without(r, f) :
                f \in {"type", "start_date", "distance", "moving_time", "name"}}

MixedRecords == WellFormedRuns \cup OtherActivities \cup DefectiveRecords

\* Instants of the streak family, by IST date (day 40 is 2025-01-10):
\*   day 40 11:30, day 41 00:30 (19:00Z of day 40), day 41 08:30,
\*   day 42 21:30, day 44 00:00 (18:30Z of day 43), day 45 23:59.
StreakStamps ==
    {At(40, 6, 0), At(40, 19, 0), At(41, 3, 0), At(42, 16, 0), At(43, 18, 30),
     At(45, 18, 29)}

StreakRecords == {Activity("Run", Stamp(s), 5000, 1500, "run") : s \in StreakStamps}

\* all lists over S of length at most n
SeqsUpTo(S, n) == UNION {[1..k -> S] : k \in 0..n}

Inputs == SeqsUpTo(MixedRecords, MaxLen) \cup SeqsUpTo(StreakRecords, MaxStreakLen)

\* the dates datetime.now(IST).date() may give: around the last run dates of
\* the streak family, two days before day 45 to two days after it
Todays == 43..47

-----------------------------------------------------------------------------
(* The pieces of analyze_wrapped_stats *)

\* FilterRuns without the test on the type: every record is kept
FilterRunsKeepAll(acts) == acts

\* line 74: the records with type "Run", in input order
FilterRuns(acts) == SelectSeq(acts, LAMBDA a : a.type = "Run")

\* lines 82-86: each run copied, with ist_date set
ConvertRuns(rs) ==
    [k \in 1..Len(rs) |->
        ("ist_date" :> utc_to_ist(rs[k].start_date)) @@ rs[k]]

\* InputAfterCopy with line 84 as ist_run = run: the input records of type
\* "Run" themselves get the ist_date key
InputAfterNoCopy(acts) ==
    [k \in 1..Len(acts) |->
        IF acts[k].type = "Run"
        THEN ("ist_date" :> utc_to_ist(acts[k].start_date)) @@ acts[k]
        ELSE acts[k]]

\* line 84: ist_run is run.copy(), so line 85 writes the copy and the caller's
\* records stay as they are
InputAfterCopy(acts) == acts

\* a pace as a fraction num / den; den = 0 is float('inf')
Inf == [num |-> 1, den |-> 0]

\* PaceKey with the moving time alone as the key
PaceKeyByTime(x) == [num |-> x.moving_time, den |-> 1]

\* line 102, the key: moving_time / (distance / 1000) if distance > 0 else inf.
\* The fraction is in s/m: the factor 1000 is common to all keys and does not
\* change their order.  For the distances and times of the input families the
\* double quotients of line 102 are exact, so that comparing the fractions is
\* comparing the doubles; for other values two equal fractions can be two
\* different doubles (60 s over 700 m, 180 s over 2100 m).
PaceKey(x) ==
    IF x.distance > 0 THEN [num |-> x.moving_time, den |-> x.distance]
    ELSE Inf

\* a < b on keys
KeyLess(a, b) == a.num * b.den < b.num * a.den

RECURSIVE MinFrom(_, _, _)
\* min(s, key=PaceKey) scanning from index k with best index b: min keeps the
\* first of the smallest keys
MinFrom(s, k, b) ==
    IF k > Len(s) THEN b
    ELSE IF KeyLess(PaceKey(s[k]), PaceKey(s[b])) THEN MinFrom(s, k + 1, k)
    ELSE MinFrom(s, k + 1, b)

\* SelectFastest keeping the last of the smallest keys
SelectFastestLast(s) ==
    CHOOSE b \in 1..Len(s) :
        /\ \A k \in 1..Len(s) : ~ KeyLess(PaceKey(s[k]), PaceKey(s[b]))
        /\ \A k \in (b + 1)..Len(s) : KeyLess(PaceKey(s[b]), PaceKey(s[k]))

\* line 102
SelectFastest(s) == MinFrom(s, 2, 1)

RECURSIVE MaxFrom(_, _, _)
\* max(s, key=distance) scanning from index k with best index b: max keeps the
\* first of the largest keys
MaxFrom(s, k, b) ==
    IF k > Len(s) THEN b
    ELSE IF s[k].distance > s[b].distance THEN MaxFrom(s, k + 1, k)
    ELSE MaxFrom(s, k + 1, b)

\* SelectLongest with moving_time as the key
SelectLongestByTime(s) ==
    CHOOSE b \in 1..Len(s) :
        /\ \A k \in 1..Len(s) : s[b].moving_time >= s[k].moving_time
        /\ \A k \in 1..(b - 1) : s[k].moving_time < s[b].moving_time

\* line 103
SelectLongest(s) == MaxFrom(s, 2, 1)

RECURSIVE MonthlyFromOverwrite(_, _, _)
\* MonthlyFrom with = in place of += : an entry holds its month's last run
MonthlyFromOverwrite(s, k, m) ==
    IF k > Len(s) THEN m
    ELSE LET key == MonthKey(s[k].ist_date)
             at == {j \in 1..Len(m) : m[j].key = key}
             one == [key |-> key, distance |-> s[k].distance, count |-> 1,
                     time |-> s[k].moving_time,
                     km |-> FDivThousand(s[k].distance)]
         IN  IF at = {} THEN MonthlyFromOverwrite(s, k + 1, Append(m, one))
             ELSE MonthlyFromOverwrite(s, k + 1,
                     [j \in 1..Len(m) |-> IF j \in at THEN one ELSE m[j]])

RECURSIVE MonthlyFrom(_, _, _)
\* lines 95-99: the defaultdict after the runs from index k on, as the list of
\* its entries in insertion order.  An entry's distance is the exact sum in
\* metres of its runs; km is the value its 'distance' key holds, the double
\* that line 97 computes by adding distance / 1000 run after run.
MonthlyFrom(s, k, m) ==
    IF k > Len(s) THEN m
    ELSE LET key == MonthKey(s[k].ist_date)
             at == {j \in 1..Len(m) : m[j].key = key}
             add(e) == [e EXCEPT !.distance = @ + s[k].distance,
                                 !.count = @ + 1,
                                 !.time = @ + s[k].moving_time,
                                 !.km = FAdd(@, FDivThousand(s[k].distance))]
             zero == [key |-> key, distance |-> 0, count |-> 0, time |-> 0,
                      km |-> FZero]
         IN  IF at = {} THEN MonthlyFrom(s, k + 1, Append(m, add(zero)))
             ELSE MonthlyFrom(s, k + 1,
                     [j \in 1..Len(m) |-> IF j \in at THEN add(m[j]) ELSE m[j]])

\* IsEarlyMorning with the hour 9 counted in
IsEarlyMorningInclusive(dt) == 5 <= HourOf(dt) /\ HourOf(dt) <= 9

\* line 106
IsEarlyMorning(dt) == 5 <= HourOf(dt) /\ HourOf(dt) < 9

\* line 107
IsNight(dt) == 20 <= HourOf(dt) \/ HourOf(dt) < 5

RECURSIVE SortedSeq(_)
\* sorted(S) of a set of integers
SortedSeq(S) ==
    IF S = {} THEN <<>>
    ELSE LET lo == CHOOSE x \in S : \A y \in S : x <= y
         IN  <<lo>> \o SortedSeq(S \ {lo})

\* line 110
RunDates(s) == SortedSeq({DateOf(s[k].ist_date) : k \in 1..Len(s)})

\* StepTemp adding the days between two dates in place of 1 or a reset
StepTempCountsDays(ds, k, temp) ==
    IF k = 1 THEN 1 ELSE temp + (ds[k] - ds[k - 1])

\* lines 116-122: temp_streak after the date at (1-based) index k
StepTemp(ds, k, temp) ==
    IF k = 1 THEN 1
    ELSE IF ds[k] - ds[k - 1] = 1 THEN temp + 1
    ELSE 1

\* StepMax without line 123: max_streak is updated at a reset only
StepMaxAtResetOnly(ds, k, mx, temp, newtemp) ==
    IF k > 1 /\ ds[k] - ds[k - 1] # 1
    THEN (IF temp > mx THEN temp ELSE mx) ELSE mx

\* lines 120-123: max_streak after the date at index k, given the old
\* temp_streak and the new one
StepMax(ds, k, mx, temp, newtemp) ==
    LET atReset == IF k > 1 /\ ds[k] - ds[k - 1] # 1
                   THEN (IF temp > mx THEN temp ELSE mx) ELSE mx
    IN  IF newtemp > atReset THEN newtemp ELSE atReset

\* line 127: the test that keeps the streak alive
StreakAlive(ds, t) == ds # <<>> /\ t - ds[Len(ds)] <= 1

RECURSIVE CountDays(_, _, _)
\* line 131: Counter of weekday names, as entries in first-seen order
CountDays(s, k, c) ==
    IF k > Len(s) THEN c
    ELSE LET d == Weekday(s[k].ist_date)
             at == {j \in 1..Len(c) : c[j][1] = d}
         IN  IF at = {} THEN CountDays(s, k + 1, Append(c, <<d, 1>>))
             ELSE CountDays(s, k + 1,
                     [j \in 1..Len(c) |->
                         IF j \in at THEN <<c[j][1], c[j][2] + 1>> ELSE c[j]])

RECURSIVE MostCommonLastFrom(_, _, _)
\* MostCommonFrom keeping the last entry with the largest count
MostCommonLastFrom(c, k, b) ==
    IF k > Len(c) THEN c[b]
    ELSE IF c[k][2] >= c[b][2] THEN MostCommonLastFrom(c, k + 1, k)
    ELSE MostCommonLastFrom(c, k + 1, b)

RECURSIVE MostCommonFrom(_, _, _)
\* Counter.most_common(1)[0]: the first entry with the largest count
MostCommonFrom(c, k, b) ==
    IF k > Len(c) THEN c[b]
    ELSE IF c[k][2] > c[b][2] THEN MostCommonFrom(c, k + 1, k)
    ELSE MostCommonFrom(c, k + 1, b)

\* line 132
FavoriteDay(s) ==
    LET day_counts == CountDays(s, 1, <<>>)
    IN  IF day_counts # <<>> THEN MostCommonFrom(day_counts, 2, 1)
        ELSE <<"None", 0>>

\* lines 135-159: the returned dict.  Rounded values are integers: the
\* distances in 0.01 km, the hours in 0.1 h, the paces in 0.01 min/km.
StatsDict ==
    LET f == ist_runs[fastest_run]
        l == ist_runs[longest_run]
    IN  [kind |-> "stats",
         total_distance |-> Round(total_distance, 10),
         total_time_hours |-> Round(total_time, 360),
         total_activities |-> total_activities,
         monthly_stats |-> monthly_stats,
         fastest_run |->
            [name |-> f.name,
             pace |-> Round(f.moving_time * 10000, 6 * f.distance),
             date |-> LongDate(f.ist_date),
             distance |-> Round(f.distance, 10)],
         longest_run |->
            [name |-> l.name,
             distance |-> Round(l.distance, 10),
             date |-> LongDate(l.ist_date),
             time |-> l.moving_time \div 60],
         early_bird_count |-> Cardinality(early_morning_runs),
         night_owl_count |-> Cardinality(night_runs),
         current_streak |-> current_streak,
         max_streak |-> max_streak,
         favorite_day |-> favorite_day,
         avg_pace |-> IF total_distance > 0
                      THEN Round(total_time * 10000, 6 * total_distance)
                      ELSE 0,
         ist_runs |-> ist_runs]

Raise(e) == [kind |-> "raise", exc |-> e]

-----------------------------------------------------------------------------
(* Tokens: refresh_access_token and get_valid_access_token *)

\* line 50
TOKEN_REFRESH_BUFFER == 300

\* line 201: the expires_in assumed when the response has none
DefaultExpiresIn == 21600

\* line 288: the last page fetched
SafetyLimit == 10

\* A session is [has, access_token, refresh_token, token_expires_at]: has says
\* whether 'access_token' is a key of the session; tokens are named 1 and 2, 0
\* being None (no refresh token); a session with no token_expires_at key reads
\* as 0 (session.get('token_expires_at', 0)).
NoSession ==
    [has |-> FALSE, access_token |-> 0, refresh_token |-> 0,
     token_expires_at |-> 0]

\* The answers of the token endpoint to the POST of line 182: the request
\* raising a RequestException, a status other than 200, or 200 with a body that
\* has an access_token (a fresh one) and may have a refresh_token (a fresh one)
\* and an expires_in.
OtherToken(t) == IF t = 1 THEN 2 ELSE 1

RefreshAnswers(sess) ==
    {[kind |-> "exception", status |-> 0, access_token |-> 0,
      has_refresh |-> FALSE, refresh_token |-> 0, has_expires |-> FALSE,
      expires_in |-> 0],
     [kind |-> "response", status |-> 400, access_token |-> 0,
      has_refresh |-> FALSE, refresh_token |-> 0, has_expires |-> FALSE,
      expires_in |-> 0]}
    \cup
    {[kind |-> "response", status |-> 200,
      access_token |-> OtherToken(sess.access_token),
      has_refresh |-> hr,
      refresh_token |-> IF hr THEN OtherToken(sess.refresh_token) ELSE 0,
      has_expires |-> he,
      expires_in |-> IF he THEN 3600 ELSE 0] : hr \in BOOLEAN, he \in BOOLEAN}

\* RefreshOutcome with line 200 as token_response.get('refresh_token'), as on
\* line 591: no fall-back to the stored refresh token
RefreshOutcomeNoFallback(sess, t, ans) ==
    IF sess.refresh_token = 0
    THEN [ret |-> FALSE, session |-> sess, posted |-> FALSE]
    ELSE IF ans.kind = "exception" \/ ans.status # 200
    THEN [ret |-> FALSE, session |-> sess, posted |-> TRUE]
    ELSE [ret |-> TRUE,
          session |->
             [has |-> TRUE,
              access_token |-> ans.access_token,
              refresh_token |-> ans.refresh_token,
              token_expires_at |->
                 t + (IF ans.has_expires THEN ans.expires_in
                      ELSE DefaultExpiresIn)],
          posted |-> TRUE]

\* refresh_access_token (lines 161-210) on session sess, the endpoint
\* answering ans, time.time() of line 201 being t: the value returned, the
\* session afterwards, and whether the POST was sent
RefreshOutcome(sess, t, ans) ==
    IF sess.refresh_token = 0
    THEN [ret |-> FALSE, session |-> sess, posted |-> FALSE]
    ELSE IF ans.kind = "exception" \/ ans.status # 200
    THEN [ret |-> FALSE, session |-> sess, posted |-> TRUE]
    ELSE [ret |-> TRUE,
          session |->
             [has |-> TRUE,
              access_token |-> ans.access_token,
              refresh_token |->
                 IF ans.has_refresh THEN ans.refresh_token
                 ELSE sess.refresh_token,
              token_expires_at |->
                 t + (IF ans.has_expires THEN ans.expires_in
                      ELSE DefaultExpiresIn)],
          posted |-> TRUE]

\* the record kept of a call of refresh_access_token
RefreshRecord(sess, t, ans, r) ==
    [kind |-> "called", before |-> sess, at |-> t, answer |-> ans,
     ret |-> r.ret, posted |-> r.posted]

\* line 227 without the buffer
StillValidNoBuffer(sess, t) == t < sess.token_expires_at

\* line 227: the stored token is used as it is
StillValid(sess, t) == t < sess.token_expires_at - TOKEN_REFRESH_BUFFER

\* get_valid_access_token (lines 212-237) on session sess, time.time() of
\* line 225 being t and that of the refresh t2: the token returned (0: None),
\* the session afterwards, and the refresh call made, if any
ValidToken(sess, t, t2, ans) ==
    IF ~sess.has
    THEN [ret |-> 0, session |-> sess, refresh |-> [kind |-> "none"]]
    ELSE IF StillValid(sess, t)
    THEN [ret |-> sess.access_token, session |-> sess,
          refresh |-> [kind |-> "none"]]
    ELSE LET r == RefreshOutcome(sess, t2, ans)
         IN  [ret |-> IF r.ret THEN r.session.access_token ELSE 0,
              session |-> r.session,
              refresh |-> RefreshRecord(sess, t2, ans, r)]

-----------------------------------------------------------------------------
(* get_all_activities, lines 239-293 *)

NoResponse == [status |-> 0, parses |-> FALSE, data |-> <<>>]

\* The answers of the activities endpoint to a GET of page p, the n-th GET of
\* that page: 200 with a non-empty list (its items named after the page asked
\* for), 200 with an empty list, 200 with a body that is not JSON, 401, 403,
\* 500.
GetAnswers(p, n) ==
    {[status |-> 200, parses |-> TRUE, data |-> <<[page |-> p]>>],
     [status |-> 200, parses |-> TRUE, data |-> <<>>],
     [status |-> 200, parses |-> FALSE, data |-> <<>>],
     [status |-> 401, parses |-> TRUE, data |-> <<>>],
     [status |-> 403, parses |-> TRUE, data |-> <<>>],
     [status |-> 500, parses |-> TRUE, data |-> <<>>]}

\* the seconds that may have passed since the call's entry when line 201 reads
\* the clock
Delays == {0, 7}

\* the sessions a call may start from: none, or the one a login left (lines
\* 590-592), with or without a refresh token, its expiry at, just inside,
\* just outside and well outside the buffer, seen at time 1000
StartSessions ==
    {NoSession} \cup
    {[has |-> TRUE, access_token |-> 1, refresh_token |-> rt,
      token_expires_at |-> e] :
        rt \in {0, 1}, e \in {1000, 1300, 1301, 5000}}

\* line 259
IsAuthError(resp) == resp.status \in {401, 403}

\* PastLimit with the safety check of lines 288-290 left out
PastLimitNever(p) == FALSE

\* line 288
PastLimit(p) == p > SafetyLimit

\* the page number up to which the model follows the loop
MaxPage == 12

InitFetch ==
    /\ session \in StartSessions
    /\ now = 1000
    /\ fpc = "entry"
    /\ token = 0
    /\ headers = 0
    /\ page = 0
    /\ all_activities = <<>>
    /\ response = NoResponse
    /\ gets = 0
    /\ refreshes = 0
    /\ tok_call = [kind |-> "none"]
    /\ ref_call = [kind |-> "none"]
    /\ fetch_result = [kind |-> "pending"]

\* lines 239-250
FetchEntry ==
    /\ fpc = "entry"
    /\ \E ans \in RefreshAnswers(session), d \in Delays :
          LET v == ValidToken(session, now, now + d, ans)
          IN  /\ session' = v.session
              /\ tok_call' = [kind |-> "called", before |-> session,
                              at |-> now, ret |-> v.ret,
                              refresh |-> v.refresh]
              /\ ref_call' = v.refresh
              /\ token' = v.ret
              /\ IF v.ret = 0
                 THEN /\ fetch_result' = [kind |-> "None"]
                      /\ fpc' = "done"
                      /\ UNCHANGED <<headers, all_activities, page>>
                 ELSE /\ headers' = v.ret
                      /\ all_activities' = <<>>
                      /\ page' = 1
                      /\ fpc' = "get"
                      /\ UNCHANGED fetch_result
    /\ UNCHANGED <<now, response, gets, refreshes>>
    /\ UNCHANGED <<statsVars, callerVars, moreVars>>

\* lines 253-256: the GET of the current page
FetchGet ==
    /\ fpc = "get"
    /\ page <= MaxPage
    /\ \E a \in GetAnswers(page, gets + 1) :
          /\ response' = a
          /\ fpc' = IF IsAuthError(a) THEN "auth" ELSE "process"
    /\ gets' = gets + 1
    /\ tok_call' = [kind |-> "none"]
    /\ ref_call' = [kind |-> "none"]
    /\ UNCHANGED <<session, now, token, headers, page, all_activities,
                   refreshes, fetch_result>>
    /\ UNCHANGED <<statsVars, callerVars, moreVars>>

\* lines 259-267: a 401/403 answer: refresh, then the same GET once more
FetchAuth ==
    /\ fpc = "auth"
    /\ \E ans \in RefreshAnswers(session), d \in Delays :
          LET r == RefreshOutcome(session, now + d, ans)
          IN  /\ session' = r.session
              /\ ref_call' = RefreshRecord(session, now + d, ans, r)
              /\ IF r.ret
                 THEN /\ token' = r.session.access_token
                      /\ headers' = r.session.access_token
                      /\ \E a \in GetAnswers(page, gets + 1) : response' = a
                      /\ gets' = gets + 1
                      /\ fpc' = "process"
                      /\ UNCHANGED fetch_result
                 ELSE /\ fetch_result' = [kind |-> "None"]
                      /\ fpc' = "done"
                      /\ UNCHANGED <<token, headers, response, gets>>
    /\ refreshes' = refreshes + 1
    /\ UNCHANGED <<now, page, all_activities, tok_call>>
    /\ UNCHANGED <<statsVars, callerVars, moreVars>>

\* Extend with the page's records put in front
ExtendFront(acc, data) == data \o acc

\* line 283: all_activities.extend(data)
Extend(acc, data) == acc \o data

\* lines 269-293: the answer is looked at; the loop goes on or the list is
\* returned
FetchProcess ==
    /\ fpc = "process"
    /\ IF response.status # 200 \/ ~response.parses \/ response.data = <<>>
       THEN /\ fetch_result' = [kind |-> "list", value |-> all_activities]
            /\ fpc' = "done"
            /\ UNCHANGED <<all_activities, page, gets, refreshes>>
       ELSE /\ all_activities' = Extend(all_activities, response.data)
            /\ page' = page + 1
            /\ IF PastLimit(page')
               THEN /\ fetch_result' =
                          [kind |-> "list", value |-> all_activities']
                    /\ fpc' = "done"
                    /\ UNCHANGED <<gets, refreshes>>
               ELSE /\ fpc' = "get"
                    /\ gets' = 0
                    /\ refreshes' = 0
                    /\ UNCHANGED fetch_result
    /\ tok_call' = [kind |-> "none"]
    /\ ref_call' = [kind |-> "none"]
    /\ UNCHANGED <<session, now, token, headers, response>>
    /\ UNCHANGED <<statsVars, callerVars, moreVars>>

NextFetch ==
    \/ FetchEntry
    \/ FetchGet
    \/ FetchAuth
    \/ FetchProcess

-----------------------------------------------------------------------------
(* The call, statement by statement *)

\* the locals of a call that has not yet assigned them
FreshLocals ==
    /\ runs = <<>>
    /\ ist_runs = <<>>
    /\ total_distance = 0
    /\ total_time = 0
    /\ total_activities = 0
    /\ monthly_stats = <<>>
    /\ fastest_run = 0
    /\ longest_run = 0
    /\ early_morning_runs = {}
    /\ night_runs = {}
    /\ dates = <<>>
    /\ i = 0
    /\ current_streak = 0
    /\ max_streak = 0
    /\ temp_streak = 0
    /\ today = 0
    /\ favorite_day = <<"None", 0>>
    /\ result = [kind |-> "pending"]

\* the state at the entry of a call on a list of S
InitOn(S) ==
    /\ activities \in S
    /\ given = activities
    /\ first = [kind |-> "none"]
    /\ pc = "filter"
    /\ FreshLocals

\* no call of analyze_wrapped_stats is in progress
StatsIdle ==
    /\ activities = <<>>
    /\ given = <<>>
    /\ first = [kind |-> "none"]
    /\ pc = "idle"
    /\ FreshLocals

\* lines 74-78
Filter ==
    /\ pc = "filter"
    /\ UNCHANGED otherVars
    /\ IF \E k \in 1..Len(activities) : ~Has(activities[k], "type")
       THEN /\ result' = Raise("KeyError")
            /\ pc' = "done"
            /\ UNCHANGED runs
       ELSE /\ runs' = FilterRuns(activities)
            /\ IF runs' = <<>>
               THEN result' = [kind |-> "None"] /\ pc' = "done"
               ELSE result' = result /\ pc' = "convert"
    /\ UNCHANGED <<activities, ist_runs, total_distance, total_time,
                   total_activities, monthly_stats, fastest_run, longest_run,
                   early_morning_runs, night_runs, dates, i, current_streak,
                   max_streak, temp_streak, today, favorite_day>>

\* lines 80-86
Convert ==
    /\ pc = "convert"
    /\ UNCHANGED otherVars
    /\ IF \E k \in 1..Len(runs) : ~Has(runs[k], "start_date")
       THEN /\ result' = Raise("KeyError")
            /\ pc' = "done"
            /\ UNCHANGED <<ist_runs, activities>>
       ELSE /\ ist_runs' = ConvertRuns(runs)
            /\ activities' = InputAfterCopy(activities)
            /\ pc' = "totals"
            /\ UNCHANGED result
    /\ UNCHANGED <<runs, total_distance, total_time,
                   total_activities, monthly_stats, fastest_run, longest_run,
                   early_morning_runs, night_runs, dates, i, current_streak,
                   max_streak, temp_streak, today, favorite_day>>

\* lines 88-91
Totals ==
    /\ pc = "totals"
    /\ UNCHANGED otherVars
    /\ IF \E k \in 1..Len(ist_runs) :
            ~Has(ist_runs[k], "distance") \/ ~Has(ist_runs[k], "moving_time")
       THEN /\ result' = Raise("KeyError")
            /\ pc' = "done"
            /\ UNCHANGED <<total_distance, total_time, total_activities>>
       ELSE /\ total_distance' = SumOver(ist_runs, "distance")
            /\ total_time' = SumOver(ist_runs, "moving_time")
            /\ total_activities' = Len(ist_runs)
            /\ pc' = "monthly"
            /\ UNCHANGED result
    /\ UNCHANGED <<activities, runs, ist_runs, monthly_stats, fastest_run,
                   longest_run, early_morning_runs, night_runs, dates, i,
                   current_streak, max_streak, temp_streak, today,
                   favorite_day>>

\* lines 93-99: strftime on an ist_date of None raises AttributeError
Monthly ==
    /\ pc = "monthly"
    /\ UNCHANGED otherVars
    /\ IF \E k \in 1..Len(ist_runs) : ist_runs[k].ist_date.none
       THEN /\ result' = Raise("AttributeError")
            /\ pc' = "done"
            /\ UNCHANGED monthly_stats
       ELSE /\ monthly_stats' = MonthlyFrom(ist_runs, 1, <<>>)
            /\ pc' = "select"
            /\ UNCHANGED result
    /\ UNCHANGED <<activities, runs, ist_runs, total_distance, total_time,
                   total_activities, fastest_run, longest_run,
                   early_morning_runs, night_runs, dates, i, current_streak,
                   max_streak, temp_streak, today, favorite_day>>

\* lines 101-103
Select ==
    /\ pc = "select"
    /\ UNCHANGED otherVars
    /\ fastest_run' = SelectFastest(ist_runs)
    /\ longest_run' = SelectLongest(ist_runs)
    /\ pc' = "patterns"
    /\ UNCHANGED <<activities, runs, ist_runs, total_distance, total_time,
                   total_activities, monthly_stats, early_morning_runs,
                   night_runs, dates, i, current_streak, max_streak,
                   temp_streak, today, favorite_day, result>>

\* lines 105-107
Patterns ==
    /\ pc = "patterns"
    /\ UNCHANGED otherVars
    /\ early_morning_runs' =
          {k \in 1..Len(ist_runs) : IsEarlyMorning(ist_runs[k].ist_date)}
    /\ night_runs' = {k \in 1..Len(ist_runs) : IsNight(ist_runs[k].ist_date)}
    /\ pc' = "dates"
    /\ UNCHANGED <<activities, runs, ist_runs, total_distance, total_time,
                   total_activities, monthly_stats, fastest_run, longest_run,
                   dates, i, current_streak, max_streak, temp_streak, today,
                   favorite_day, result>>

\* lines 109-113, and the loop's entry at line 115
Dates ==
    /\ pc = "dates"
    /\ UNCHANGED otherVars
    /\ dates' = RunDates(ist_runs)
    /\ current_streak' = 0
    /\ max_streak' = 0
    /\ temp_streak' = 0
    /\ i' = 1
    /\ pc' = IF dates' = <<>> THEN "current" ELSE "streak"
    /\ UNCHANGED <<activities, runs, ist_runs, total_distance, total_time,
                   total_activities, monthly_stats, fastest_run, longest_run,
                   early_morning_runs, night_runs, today, favorite_day,
                   result>>

\* lines 115-123: one iteration of the streak walk
StreakStep ==
    /\ pc = "streak"
    /\ UNCHANGED otherVars
    /\ i <= Len(dates)
    /\ temp_streak' = StepTemp(dates, i, temp_streak)
    /\ max_streak' = StepMax(dates, i, max_streak, temp_streak, temp_streak')
    /\ i' = i + 1
    /\ pc' = IF i = Len(dates) THEN "current" ELSE "streak"
    /\ UNCHANGED <<activities, runs, ist_runs, total_distance, total_time,
                   total_activities, monthly_stats, fastest_run, longest_run,
                   early_morning_runs, night_runs, dates, current_streak,
                   today, favorite_day, result>>

\* lines 125-128: today is read from the clock, which does not run backwards
\* from one call to the next
CurrentStreak ==
    /\ pc = "current"
    /\ UNCHANGED otherVars
    /\ \E t \in Todays :
          /\ first.kind = "stats" => t >= first.today
          /\ today' = t
          /\ current_streak' =
                IF StreakAlive(dates, t) THEN temp_streak ELSE current_streak
    /\ pc' = "favorite"
    /\ UNCHANGED <<activities, runs, ist_runs, total_distance, total_time,
                   total_activities, monthly_stats, fastest_run, longest_run,
                   early_morning_runs, night_runs, dates, i, max_streak,
                   temp_streak, favorite_day, result>>

\* lines 130-132
Favorite ==
    /\ pc = "favorite"
    /\ UNCHANGED otherVars
    /\ favorite_day' = FavoriteDay(ist_runs)
    /\ pc' = "return"
    /\ UNCHANGED <<activities, runs, ist_runs, total_distance, total_time,
                   total_activities, monthly_stats, fastest_run, longest_run,
                   early_morning_runs, night_runs, dates, i, current_streak,
                   max_streak, temp_streak, today, result>>

\* lines 135-159: the dict is built entry by entry, so the first failing
\* entry decides the exception
Return ==
    /\ pc = "return"
    /\ UNCHANGED otherVars
    /\ result' =
          IF ~Has(ist_runs[fastest_run], "name") THEN Raise("KeyError")
          ELSE IF ist_runs[fastest_run].distance = 0
               THEN Raise("ZeroDivisionError")
          ELSE IF ~Has(ist_runs[longest_run], "name") THEN Raise("KeyError")
          ELSE StatsDict
    /\ pc' = "done"
    /\ UNCHANGED <<activities, runs, ist_runs, total_distance, total_time,
                   total_activities, monthly_stats, fastest_run, longest_run,
                   early_morning_runs, night_runs, dates, i, current_streak,
                   max_streak, temp_streak, today, favorite_day>>

\* no call of get_all_activities is in progress
FetchIdle ==
    /\ session = NoSession
    /\ now = 0
    /\ fpc = "idle"
    /\ token = 0
    /\ headers = 0
    /\ page = 0
    /\ all_activities = <<>>
    /\ response = NoResponse
    /\ gets = 0
    /\ refreshes = 0
    /\ tok_call = [kind |-> "none"]
    /\ ref_call = [kind |-> "none"]
    /\ fetch_result = [kind |-> "pending"]

\* get_stats_page is not being served
PageIdle ==
    /\ ppc = "idle"
    /\ page_activities = <<>>
    /\ runs_2025 = <<>>
    /\ table_rows = <<>>

\* the dashboard's streak loop is not running
DashIdle ==
    /\ dpc = "idle"
    /\ dash_dates = <<>>
    /\ dash_i = 0
    /\ dash_current_streak = 0
    /\ dash_max_streak = 0

\* the users table is empty
UsersIdle ==
    /\ users = <<>>
    /\ utcnow = 0

MoreIdle == PageIdle /\ DashIdle /\ UsersIdle

Init == InitOn(Inputs) /\ FetchIdle /\ MoreIdle

Next ==
    \/ Filter
    \/ Convert
    \/ Totals
    \/ Monthly
    \/ Select
    \/ Patterns
    \/ Dates
    \/ StreakStep
    \/ CurrentStreak
    \/ Favorite
    \/ Return

Spec == Init /\ [][Next]_vars

\* The caller calls analyze_wrapped_stats once more on the same list, after a
\* first call that returned statistics: what that call returned and when it
\* ran are kept, and the new call starts with fresh locals.
Again ==
    /\ pc = "done"
    /\ first.kind = "none"
    /\ result.kind = "stats"
    /\ first' = [kind |-> "stats", result |-> result, today |-> today]
    /\ pc' = "filter"
    /\ runs' = <<>>
    /\ ist_runs' = <<>>
    /\ total_distance' = 0
    /\ total_time' = 0
    /\ total_activities' = 0
    /\ monthly_stats' = <<>>
    /\ fastest_run' = 0
    /\ longest_run' = 0
    /\ early_morning_runs' = {}
    /\ night_runs' = {}
    /\ dates' = <<>>
    /\ i' = 0
    /\ current_streak' = 0
    /\ max_streak' = 0
    /\ temp_streak' = 0
    /\ today' = 0
    /\ favorite_day' = <<"None", 0>>
    /\ result' = [kind |-> "pending"]
    /\ UNCHANGED <<activities, given, fetchVars, moreVars>>

\* the lists called twice: up to MaxTwiceLen runs of the streak family or
\* zero-distance runs and rides of the mixed family
MaxTwiceLen == 2

TwiceRecords ==
    StreakRecords \cup OtherActivities
    \cup {r \in WellFormedRuns : r.moving_time = 1500}

InitTwice == InitOn(SeqsUpTo(TwiceRecords, MaxTwiceLen)) /\ FetchIdle /\ MoreIdle

NextTwice == Next \/ Again

SpecTwice == InitTwice /\ [][NextTwice]_vars

\* The caller calls analyze_wrapped_stats once more, on a list with the same
\* records in another order, after a first call that returned statistics.
AgainPermuted ==
    /\ pc = "done"
    /\ first.kind = "none"
    /\ result.kind = "stats"
    /\ first' = [kind |-> "stats", result |-> result, today |-> today]
    /\ \E p \in Permutations(1..Len(activities)) :
          /\ activities' = [k \in 1..Len(activities) |-> activities[p[k]]]
          /\ given' = activities'
    /\ pc' = "filter"
    /\ runs' = <<>>
    /\ ist_runs' = <<>>
    /\ total_distance' = 0
    /\ total_time' = 0
    /\ total_activities' = 0
    /\ monthly_stats' = <<>>
    /\ fastest_run' = 0
    /\ longest_run' = 0
    /\ early_morning_runs' = {}
    /\ night_runs' = {}
    /\ dates' = <<>>
    /\ i' = 0
    /\ current_streak' = 0
    /\ max_streak' = 0
    /\ temp_streak' = 0
    /\ today' = 0
    /\ favorite_day' = <<"None", 0>>
    /\ result' = [kind |-> "pending"]
    /\ UNCHANGED <<fetchVars, moreVars>>

\* the lists given in two orders: up to MaxPermLen runs of 100, 200 or 300 m
\* at 2025-01-12 06:30 IST or 2025-01-13 21:30 IST
MaxPermLen == 3

PermRecords ==
    {Activity("Run", Stamp(s), d, 1500, "run") :
        s \in {At(42, 1, 0), At(43, 16, 0)}, d \in {100, 200, 300}}

InitPerm == InitOn(SeqsUpTo(PermRecords, MaxPermLen)) /\ FetchIdle /\ MoreIdle

NextPerm == Next \/ AgainPermuted

SpecPerm == InitPerm /\ [][NextPerm]_vars

\* Runs at every local hour and on both sides of month and year ends.
\*   HourStamps: 2025-01-10 hh:00Z, hh = 0..23, that is 05:30 ... 23:30 IST of
\*   2025-01-10 (a Friday) and 00:30 ... 04:30 IST of 2025-01-11.
\*   BoundaryStamps, as IST: 2024-12-31 23:59, 2025-01-01 00:00,
\*   2025-01-31 23:59, 2025-02-01 01:30, 2026-01-01 04:30.
HourStamps == {At(40, hh, 0) : hh \in 0..23}

BoundaryStamps ==
    {At(30, 18, 29), At(30, 18, 30), At(61, 18, 29), At(61, 20, 0),
     At(395, 23, 0)}

HourRecords == {Activity("Run", Stamp(s), 5000, 1500, "run") : s \in HourStamps}

BoundaryRecords ==
    {Activity("Run", Stamp(s), d, 1500, "run") :
        s \in BoundaryStamps, d \in {5000, 10000}}

\* longest list of the hour family and of the boundary family
MaxHourLen == 2

MaxBoundaryLen == 3

InitCal ==
    /\ InitOn(SeqsUpTo(HourRecords, MaxHourLen)
              \cup SeqsUpTo(BoundaryRecords, MaxBoundaryLen))
    /\ FetchIdle
    /\ MoreIdle

SpecCal == InitCal /\ [][Next]_vars

\* a call of get_all_activities, no call of analyze_wrapped_stats being made
InitFetchOnly == InitFetch /\ StatsIdle /\ MoreIdle

SpecFetch == InitFetchOnly /\ [][NextFetch]_vars

\* a call of get_all_activities keeps running: every request is answered
FairSpecFetch == SpecFetch /\ WF_vars(NextFetch)

-----------------------------------------------------------------------------
(* What the claims speak of, stated on the input alone *)

\* the input records of type "Run" (indices)
RunIdx == {k \in 1..Len(activities) :
              Has(activities[k], "type") /\ activities[k].type = "Run"}

\* a record with all five fields and a start_date that parses
WellFormed(a) ==
    /\ \A f \in {"type", "start_date", "distance", "moving_time", "name"} :
          Has(a, f)
    /\ a.start_date.iso

AllWellFormed == \A k \in 1..Len(activities) : WellFormed(activities[k])

\* the local (UTC+5:30) calendar day of a record's start, as a day number
LocalDay(a) == (a.start_date.utc + 330) \div 1440

\* the distinct local dates of the runs
RunDays == {LocalDay(activities[k]) : k \in RunIdx}

\* the length of the longest block of consecutive days in S
LongestBlock(S) ==
    IF S = {} THEN 0
    ELSE CHOOSE n \in 1..Cardinality(S) :
            /\ \E d \in S : \A k \in 0..(n - 1) : d + k \in S
            /\ \A m \in (n + 1)..Cardinality(S) :
                  ~ \E d \in S : \A k \in 0..(m - 1) : d + k \in S

\* S is a block of consecutive days
NoGaps(S) == \A d \in S : \A e \in S : \A x \in d..e : x \in S

RECURSIVE SumIdx(_, _)
\* the sum of field f over the input records with index in I
SumIdx(I, f) ==
    IF I = {} THEN 0
    ELSE LET k == CHOOSE x \in I : TRUE
         IN  activities[k][f] + SumIdx(I \ {k}, f)

\* the streak walk of lines 115-123 has finished
WalkDone == pc \in {"current", "favorite", "return", "done"} /\ dates # <<>>

\* lines 88-91 have been executed
TotalsDone == pc \notin {"filter", "convert", "totals"} /\ total_activities > 0

\* lines 102-103 have been executed
Selected == fastest_run # 0 /\ longest_run # 0

\* lines 126-128 have been executed
CurrentDone == pc \in {"favorite", "return", "done"} /\ dates # <<>>

-----------------------------------------------------------------------------
(* Claims *)

\* C1: for every non-empty list of Run records, max_streak equals the length
\* of the longest block of consecutive calendar days among the distinct local
\* (IST) run dates: the number of distinct dates when they have no gaps, 1 for
\* a single date, several runs on one local date counting as one day.
C1_MaxStreakIsLongestBlock ==
    WalkDone =>
        /\ max_streak = LongestBlock(RunDays)
        /\ NoGaps(RunDays) => max_streak = Cardinality(RunDays)
        /\ Cardinality(RunDays) = 1 => max_streak = 1
        /\ result.kind = "stats" => result.max_streak = LongestBlock(RunDays)

\* C1 witness: four runs on three distinct local dates, two of them on the
\* same date, with a gap: the longest block is shorter than the date count.
C1_Witness ==
    /\ result.kind = "stats"
    /\ Len(activities) = 4
    /\ Cardinality(RunDays) = 3
    /\ result.max_streak = 2

\* C2: current_streak is the final temp_streak only if the most recent local
\* run date is today or yesterday; for every other most recent date, earlier
\* or later, it is 0.
C2_CurrentStreakOnlyTodayOrYesterday ==
    CurrentDone =>
        current_streak =
            IF today - dates[Len(dates)] \in {0, 1} THEN temp_streak ELSE 0

\* C3: the call returns None, without raising, exactly when no input record
\* has type "Run"; with at least one well-formed Run record it returns the
\* statistics.  Stated for inputs whose records all have every field and a
\* start_date that parses.
C3_NoneIffNoRun ==
    (pc = "done" /\ AllWellFormed) =>
        /\ RunIdx = {} <=> result.kind = "None"
        /\ RunIdx # {} => result.kind = "stats"

\* C4: total_activities is the number of records of type "Run", the total
\* distance is the sum of distance over exactly those records, the total time
\* the sum of their moving_time; other records contribute nothing and a
\* zero-distance run is counted.
C4_TotalsOverRuns ==
    TotalsDone =>
        /\ total_activities = Cardinality(RunIdx)
        /\ total_distance = SumIdx(RunIdx, "distance")
        /\ total_time = SumIdx(RunIdx, "moving_time")
        /\ result.kind = "stats" =>
              /\ result.total_activities = Cardinality(RunIdx)
              /\ 10 * result.total_distance - SumIdx(RunIdx, "distance")
                    \in -5..5
              /\ 360 * result.total_time_hours - SumIdx(RunIdx, "moving_time")
                    \in -180..180

\* C4 witness: a result over a run of distance 0, a run of non-zero distance
\* and a record of another type.
C4_Witness ==
    /\ result.kind = "stats"
    /\ Len(activities) = 3
    /\ Cardinality(RunIdx) = 2
    /\ \E k \in RunIdx : activities[k].distance = 0
    /\ \E k \in 1..Len(activities) :
          k \notin RunIdx /\ activities[k].distance > 0
    /\ result.total_activities = 2

\* C5: the record selected as fastest_run has a pace (moving_time / distance)
\* less than or equal to the pace of every other run with non-zero distance.
C5_FastestHasLeastPace ==
    Selected =>
        \A k \in 1..Len(ist_runs) :
            (k # fastest_run /\ ist_runs[k].distance > 0) =>
                /\ ist_runs[fastest_run].distance > 0
                /\ ist_runs[fastest_run].moving_time * ist_runs[k].distance
                      <= ist_runs[k].moving_time
                            * ist_runs[fastest_run].distance

\* C5 witness: the fastest run is the last of three runs of three different
\* paces, the first of which has the least moving time.
C5_Witness ==
    /\ Selected
    /\ Len(ist_runs) = 3
    /\ fastest_run = 3
    /\ \A k \in 1..3 : ist_runs[k].distance > 0
    /\ ist_runs[1].moving_time < ist_runs[3].moving_time
    /\ \A k \in 1..2 :
          ist_runs[3].moving_time * ist_runs[k].distance
             < ist_runs[k].moving_time * ist_runs[3].distance

\* C6: for every non-empty list of runs, also when every run has distance 0,
\* a run with distance 0 is never the record selected as fastest_run.
C6_FastestNeverZeroDistance ==
    Selected => ist_runs[fastest_run].distance > 0

\* C7: the call never raises a division-by-zero fault, whichever runs have
\* distance 0.
C7_NoZeroDivision ==
    ~(result.kind = "raise" /\ result.exc = "ZeroDivisionError")

\* C8: the record selected as longest_run has a distance greater than or
\* equal to that of every other run; a zero-distance run is selected as
\* longest only when every run has distance 0.
C8_LongestHasMostDistance ==
    Selected =>
        /\ \A k \in 1..Len(ist_runs) :
              ist_runs[longest_run].distance >= ist_runs[k].distance
        /\ ist_runs[longest_run].distance = 0 =>
              \A k \in RunIdx : activities[k].distance = 0
        /\ result.kind = "stats" =>
              \A k \in RunIdx :
                 10 * result.longest_run.distance >= activities[k].distance - 5

\* C8 witness: the longest run is the last of three, after a shorter run that
\* took more time and a run of distance 0.
C8_Witness ==
    /\ result.kind = "stats"
    /\ Len(ist_runs) = 3
    /\ longest_run = 3
    /\ ist_runs[1].distance = 0
    /\ ist_runs[2].distance > 0
    /\ ist_runs[2].moving_time > ist_runs[3].moving_time

\* C9: a Run record whose start_date cannot be converted does not abort the
\* call: it is left out and the statistics are computed over the remaining
\* well-formed runs.  Stated for inputs whose records have every field and
\* that hold a well-formed run of non-zero distance.
C9_MalformedDateSkipped ==
    LET good == {k \in RunIdx : activities[k].start_date.iso}
    IN  (/\ pc = "done"
         /\ \A k \in 1..Len(activities) :
               \A f \in {"type", "start_date", "distance", "moving_time",
                         "name"} : Has(activities[k], f)
         /\ \E k \in RunIdx : ~activities[k].start_date.iso
         /\ \E k \in good : activities[k].distance > 0)
        => /\ result.kind = "stats"
           /\ result.total_activities = Cardinality(good)

\* C10: the call does not raise when a record lacks one of the fields type,
\* distance, moving_time or name.  Stated for inputs whose records all have
\* a start_date.
C10_MissingFieldNoRaise ==
    (\A k \in 1..Len(activities) : Has(activities[k], "start_date")) =>
        ~(result.kind = "raise" /\ result.exc = "KeyError")

\* the local (UTC+5:30) hour of a record's start
LocalHour(a) == ((a.start_date.utc + 330) % 1440) \div 60

\* lines 106-107 have been executed on a list of well-formed run records, so
\* that ist_runs[k] is the copy of activities[k]
PatternsDone ==
    /\ pc \in {"dates", "streak", "current", "favorite", "return", "done"}
    /\ AllWellFormed
    /\ Len(ist_runs) = Len(activities)
    /\ ist_runs # <<>>

\* C11: a run is counted as an early-morning run exactly when its local hour
\* h satisfies 5 <= h < 9 and as a night run exactly when h >= 20 or h < 5:
\* the hours 5 and 20 are in, 9 is in neither, 4 is night, and no run is in
\* both; the returned counts are the sizes of the two lists.
C11_HourBoundaries ==
    PatternsDone =>
        /\ \A k \in 1..Len(activities) :
              /\ k \in early_morning_runs
                    <=> LocalHour(activities[k]) \in {5, 6, 7, 8}
              /\ k \in night_runs
                    <=> LocalHour(activities[k])
                            \in {20, 21, 22, 23, 0, 1, 2, 3, 4}
        /\ early_morning_runs \cap night_runs = {}
        /\ result.kind = "stats" =>
              /\ result.early_bird_count =
                    Cardinality({k \in 1..Len(activities) :
                        LocalHour(activities[k]) \in 5..8})
              /\ result.night_owl_count =
                    Cardinality({k \in 1..Len(activities) :
                        LocalHour(activities[k]) \in (20..23) \cup (0..4)})

\* C11 witness: a result over a run at local hour 9 and a run at local hour
\* 5, of which only the second is counted as early and none as night.
C11_Witness ==
    /\ result.kind = "stats"
    /\ Len(activities) = 2
    /\ LocalHour(activities[1]) = 9
    /\ LocalHour(activities[2]) = 5
    /\ result.early_bird_count = 1
    /\ result.night_owl_count = 0

\* a result over a run at local hour 20 and a run at local hour 4, both
\* counted as night runs and none as early
C11_NightWitness ==
    /\ result.kind = "stats"
    /\ Len(activities) = 2
    /\ LocalHour(activities[1]) = 20
    /\ LocalHour(activities[2]) = 4
    /\ result.early_bird_count = 0
    /\ result.night_owl_count = 2

\* The local calendar reading of the instants of the hour and boundary
\* families, written out by hand from a calendar: day number (day 0 is
\* 2024-12-01), year and month, hour, weekday.
\*   2024-12-31T18:29Z = 2024-12-31 23:59 IST, a Tuesday
\*   2024-12-31T18:30Z = 2025-01-01 00:00 IST, a Wednesday
\*   2025-01-31T18:29Z = 2025-01-31 23:59 IST, a Friday
\*   2025-01-31T20:00Z = 2025-02-01 01:30 IST, a Saturday
\*   2025-12-31T23:00Z = 2026-01-01 04:30 IST, a Thursday
\*   2025-01-10Thh:00Z = 2025-01-10 (hh+5):30 IST, a Friday, for hh <= 18,
\*                       2025-01-11 (hh-19):30 IST, a Saturday, for hh >= 19
Expected(utc) ==
    IF utc = 44309 THEN
        [day |-> 30, ym |-> <<2024, 12>>, hour |-> 23, weekday |-> "Tuesday"]
    ELSE IF utc = 44310 THEN
        [day |-> 31, ym |-> <<2025, 1>>, hour |-> 0, weekday |-> "Wednesday"]
    ELSE IF utc = 88949 THEN
        [day |-> 61, ym |-> <<2025, 1>>, hour |-> 23, weekday |-> "Friday"]
    ELSE IF utc = 89040 THEN
        [day |-> 62, ym |-> <<2025, 2>>, hour |-> 1, weekday |-> "Saturday"]
    ELSE IF utc = 570180 THEN
        [day |-> 396, ym |-> <<2026, 1>>, hour |-> 4, weekday |-> "Thursday"]
    ELSE LET hh == (utc - 57600) \div 60
         IN  IF hh <= 18
             THEN [day |-> 40, ym |-> <<2025, 1>>, hour |-> hh + 5,
                   weekday |-> "Friday"]
             ELSE [day |-> 41, ym |-> <<2025, 1>>, hour |-> hh - 19,
                   weekday |-> "Saturday"]

\* the calendar reading of the k-th input record
ExpectedOf(k) == Expected(activities[k].start_date.utc)

\* every derived value of lines 93-132 has been computed, on a list of
\* well-formed run records
DerivedDone ==
    /\ pc \in {"return", "done"}
    /\ AllWellFormed
    /\ Len(ist_runs) = Len(activities)
    /\ ist_runs # <<>>

\* C12: the calendar date used for the streaks, the "YYYY-MM" month key, the
\* hour used for early/night and the weekday of every run are those of one
\* local timestamp, the UTC start instant plus 5 h 30 min: a run starting at
\* or after 18:30 UTC is on the next calendar day, and in the next month or
\* year at a month or year end.
C12_OneLocalTimestamp ==
    DerivedDone =>
        LET n == Len(activities)
        IN  /\ \A k \in 1..n :
                  /\ ~ ist_runs[k].ist_date.none
                  /\ ist_runs[k].ist_date.local
                        = activities[k].start_date.utc + 330
                  /\ DateOf(ist_runs[k].ist_date)
                        = (activities[k].start_date.utc \div 1440)
                          + (IF activities[k].start_date.utc % 1440 >= 1110
                             THEN 1 ELSE 0)
            /\ {dates[j] : j \in 1..Len(dates)}
                  = {ExpectedOf(k).day : k \in 1..n}
            /\ {monthly_stats[j].key : j \in 1..Len(monthly_stats)}
                  = {ExpectedOf(k).ym : k \in 1..n}
            /\ early_morning_runs
                  = {k \in 1..n : ExpectedOf(k).hour \in 5..8}
            /\ night_runs
                  = {k \in 1..n : ExpectedOf(k).hour \in (20..23) \cup (0..4)}
            /\ favorite_day[2]
                  = Cardinality({k \in 1..n :
                        ExpectedOf(k).weekday = favorite_day[1]})
            /\ favorite_day[2] > 0

\* C12 witness: a result over a run at 2024-12-31T18:29Z and a run one
\* minute later: two local dates, two month keys, in two years.
C12_Witness ==
    /\ result.kind = "stats"
    /\ Len(activities) = 2
    /\ activities[1].start_date.utc = 44309
    /\ activities[2].start_date.utc = 44310
    /\ dates = <<30, 31>>
    /\ Len(result.monthly_stats) = 2
    /\ result.monthly_stats[1].key = <<2024, 12>>
    /\ result.monthly_stats[2].key = <<2025, 1>>

\* lines 94-99 have been executed on a list of well-formed run records
MonthlyDone ==
    /\ pc \in {"select", "patterns", "dates", "streak", "current", "favorite",
               "return", "done"}
    /\ AllWellFormed
    /\ Len(ist_runs) = Len(activities)
    /\ ist_runs # <<>>

\* the input records whose local year and month are ym
InMonth(ym) == {k \in 1..Len(activities) : ExpectedOf(k).ym = ym}

\* C13: for every key of monthly_stats, its distance, count and time are the
\* sum of distance, the number and the sum of moving_time of exactly the runs
\* whose local year-month is that key; a key is present iff at least one run
\* falls in that month, and no key occurs twice.
C13_MonthlyBuckets ==
    MonthlyDone =>
        /\ \A j \in 1..Len(monthly_stats) :
              LET e == monthly_stats[j]
              IN  /\ InMonth(e.key) # {}
                  /\ e.distance = SumIdx(InMonth(e.key), "distance")
                  /\ e.count = Cardinality(InMonth(e.key))
                  /\ e.time = SumIdx(InMonth(e.key), "moving_time")
        /\ \A k \in 1..Len(activities) :
              \E j \in 1..Len(monthly_stats) :
                  monthly_stats[j].key = ExpectedOf(k).ym
        /\ \A j1 \in 1..Len(monthly_stats) : \A j2 \in 1..Len(monthly_stats) :
              monthly_stats[j1].key = monthly_stats[j2].key => j1 = j2
        /\ result.kind = "stats" => result.monthly_stats = monthly_stats

\* C13 witness: a result over three runs, the first and the third in January
\* 2025 (5 km and 10 km) and the second in December 2024 between them.
C13_Witness ==
    /\ result.kind = "stats"
    /\ Len(activities) = 3
    /\ result.monthly_stats =
          <<[key |-> <<2025, 1>>, distance |-> 15000, count |-> 2,
             time |-> 3000, km |-> <<0, 0, 0, 0, 15>>],
            [key |-> <<2024, 12>>, distance |-> 10000, count |-> 1,
             time |-> 1500, km |-> <<0, 0, 0, 0, 10>>]>>

\* C14: for every list with at least one run the call returns statistics
\* whose avg_pace is the total moving time in minutes divided by the total
\* distance in km over all runs (to 0.01 min/km), and 0 when the total
\* distance is 0; runs of distance 0 add nothing to the divisor.
C14_AvgPace ==
    (pc = "done" /\ AllWellFormed /\ RunIdx # {}) =>
        /\ result.kind = "stats"
        /\ result.avg_pace =
              IF SumIdx(RunIdx, "distance") = 0 THEN 0
              ELSE Round(SumIdx(RunIdx, "moving_time") * 10000,
                         6 * SumIdx(RunIdx, "distance"))

\* the part of C14 away from total distance 0: whenever statistics are
\* returned, avg_pace is total minutes over total km
C14_AvgPaceOverPositiveDistance ==
    (pc = "done" /\ AllWellFormed /\ result.kind = "stats") =>
        /\ SumIdx(RunIdx, "distance") > 0
        /\ result.avg_pace =
              Round(SumIdx(RunIdx, "moving_time") * 10000,
                    6 * SumIdx(RunIdx, "distance"))

\* the weekday name of a record's local start date (2024-12-01, day 0, was a
\* Sunday)
LocalWeekday(a) ==
    CASE LocalDay(a) % 7 = 0 -> "Sunday"
      [] LocalDay(a) % 7 = 1 -> "Monday"
      [] LocalDay(a) % 7 = 2 -> "Tuesday"
      [] LocalDay(a) % 7 = 3 -> "Wednesday"
      [] LocalDay(a) % 7 = 4 -> "Thursday"
      [] LocalDay(a) % 7 = 5 -> "Friday"
      [] LocalDay(a) % 7 = 6 -> "Saturday"

\* the runs of the input on weekday w
OnWeekday(w) == {k \in RunIdx : LocalWeekday(activities[k]) = w}

\* the position in the input of the first run on weekday w
FirstOn(w) == CHOOSE k \in OnWeekday(w) : \A j \in OnWeekday(w) : k <= j

\* lines 131-132 have been executed on a list of well-formed records with a
\* run
FavoriteDone ==
    /\ pc \in {"return", "done"}
    /\ AllWellFormed
    /\ ist_runs # <<>>

\* C15: favorite_day is a weekday whose run count is the largest over all
\* weekdays, with that count; when several weekdays have the largest count it
\* is the one of them that occurs first in the input order of the runs.
C15_FavoriteDayFirstOfMax ==
    FavoriteDone =>
        LET days == {LocalWeekday(activities[k]) : k \in RunIdx}
            fav == favorite_day[1]
        IN  /\ fav \in days
            /\ favorite_day[2] = Cardinality(OnWeekday(fav))
            /\ \A w \in days :
                  /\ Cardinality(OnWeekday(w)) <= Cardinality(OnWeekday(fav))
                  /\ Cardinality(OnWeekday(w)) = Cardinality(OnWeekday(fav))
                        => FirstOn(fav) <= FirstOn(w)
            /\ result.kind = "stats" => result.favorite_day = favorite_day

\* C15 witness: a result over runs on a Saturday, a Friday, a Friday and a
\* Saturday, in this order: the two weekdays tie at two runs and the
\* Saturday, first in the input, is the favorite.
C15_Witness ==
    /\ result.kind = "stats"
    /\ Len(activities) = 4
    /\ LocalWeekday(activities[1]) = "Saturday"
    /\ LocalWeekday(activities[2]) = "Friday"
    /\ LocalWeekday(activities[3]) = "Friday"
    /\ LocalWeekday(activities[4]) = "Saturday"
    /\ result.favorite_day = <<"Saturday", 2>>

\* a second call on the same list has returned
SecondDone == pc = "done" /\ first.kind = "stats"

C17_InputUnchanged ==
    /\ activities = given
    /\ \A k \in 1..Len(activities) : ~ Has(activities[k], "ist_date")

\* C17 witness: a call has returned statistics over copies that carry
\* ist_date, for a list of a run and a record of another type.
C17_Witness ==
    /\ result.kind = "stats"
    /\ Len(activities) = 2
    /\ Cardinality(RunIdx) = 1
    /\ \A k \in 1..Len(result.ist_runs) : Has(result.ist_runs[k], "ist_date")

\* C18: a token returned by get_valid_access_token is valid: either it is
\* the stored token, returned with no refresh request because the time of the
\* call is more than TOKEN_REFRESH_BUFFER (300 s) before token_expires_at, or
\* one refresh was attempted, succeeded, and the newly stored token is
\* returned.  None is returned when the session has no access_token, with no
\* refresh attempted, or when the refresh fails.
C18_ValidTokenContract ==
    tok_call.kind = "called" =>
        LET b == tok_call.before
            r == tok_call.refresh
            inTime == tok_call.at < b.token_expires_at - 300
        IN  /\ tok_call.ret # 0 =>
                  \/ /\ r.kind = "none"
                     /\ b.has /\ inTime
                     /\ tok_call.ret = b.access_token
                     /\ session = b
                  \/ /\ r.kind = "called"
                     /\ ~ inTime
                     /\ r.posted /\ r.ret
                     /\ r.answer.kind = "response" /\ r.answer.status = 200
                     /\ tok_call.ret = r.answer.access_token
                     /\ session.access_token = tok_call.ret
            /\ ~ b.has => tok_call.ret = 0 /\ r.kind = "none" /\ session = b
            /\ (b.has /\ inTime) => tok_call.ret # 0 /\ r.kind = "none"
            /\ (b.has /\ ~ inTime) => r.kind = "called"
            /\ (r.kind = "called" /\ ~ r.ret) => tok_call.ret = 0

\* C18 witness: a session whose token expires exactly 300 s after the call:
\* the refresh is made, succeeds, and the new token is returned.
C18_Witness ==
    /\ tok_call.kind = "called"
    /\ tok_call.before.token_expires_at = tok_call.at + 300
    /\ tok_call.refresh.kind = "called"
    /\ tok_call.ret = 2
    /\ session.access_token = 2

\* a session whose token expires 301 s after the call: the stored token is
\* returned and no refresh is made
C18_StoredWitness ==
    /\ tok_call.kind = "called"
    /\ tok_call.before.token_expires_at = tok_call.at + 301
    /\ tok_call.refresh.kind = "none"
    /\ tok_call.ret = 1

C20_FetchTerminates ==
    /\ [](fpc \in {"get", "auth", "process"} =>
            /\ page \in 1..10
            /\ gets <= 2
            /\ refreshes <= 1)
    /\ [](fpc = "done" => fetch_result.kind \in {"None", "list"})
    /\ <>(fpc = "done")

\* C20 witness: every one of the pages 1 to 10 was answered with a non-empty
\* list, the last one after a 401 and a refresh, and the call has returned
\* the ten pages' records.
C20_Witness ==
    /\ fpc = "done"
    /\ fetch_result.kind = "list"
    /\ Len(fetch_result.value) = 10
    /\ page = 11
    /\ gets = 2
    /\ refreshes = 1

\* C21: get_all_activities returns None if and only if fetching failed for
\* an authentication reason: no usable token at entry, or a 401/403 answer
\* that was not overcome; every list it returns was collected without an
\* unresolved 401/403 answer.
C21_NoneIffAuthFailure ==
    fpc = "done" =>
        /\ fetch_result.kind = "None" =>
              \/ tok_call.kind = "called" /\ tok_call.ret = 0
              \/ /\ IsAuthError(response)
                 /\ ref_call.kind = "called" /\ ~ ref_call.ret
        /\ fetch_result.kind = "list" => ~ IsAuthError(response)

\* the direction of C21 that holds: None is returned only when no token was
\* available at entry or a refresh after a 401/403 answer failed
C21_NoneOnlyOnAuthFailure ==
    (fpc = "done" /\ fetch_result.kind = "None") =>
        \/ tok_call.kind = "called" /\ tok_call.ret = 0
        \/ /\ IsAuthError(response)
           /\ ref_call.kind = "called" /\ ~ ref_call.ret

\* the records of pages 1 to n, one page after the other
PagesUpTo(n) == [k \in 1..n |-> [page |-> k]]

\* C22: the list returned by get_all_activities is the concatenation, in
\* increasing page order from page 1, of the pages answered with a non-empty
\* 200 response: each such page once, also when it was asked for again after
\* a token refresh, no page number skipped, and nothing appended after the
\* first empty, failed or unparsable page.
C22_ConcatenationOfPages ==
    /\ fpc \in {"get", "auth", "process"} =>
          all_activities = PagesUpTo(page - 1)
    /\ (fpc = "done" /\ fetch_result.kind = "list") =>
          /\ fetch_result.value = all_activities
          /\ \E n \in 0..10 : fetch_result.value = PagesUpTo(n)
          /\ (response.status # 200 \/ ~ response.parses
                \/ response.data = <<>>)
                => fetch_result.value = PagesUpTo(page - 1)
          /\ (response.status = 200 /\ response.parses
                /\ response.data # <<>>)
                => page = 11 /\ fetch_result.value = PagesUpTo(10)

\* C22 witness: pages 1 and 2 were answered with records, page 3 was asked
\* for twice, around a token refresh, and answered with an empty list: the
\* list returned holds pages 1 and 2.
C22_Witness ==
    /\ fpc = "done"
    /\ fetch_result.kind = "list"
    /\ fetch_result.value = <<[page |-> 1], [page |-> 2]>>
    /\ page = 3
    /\ gets = 2
    /\ refreshes = 1
    /\ response.status = 200 /\ response.parses /\ response.data = <<>>

\* C23: at every step of the streak walk over the sorted distinct dates, after
\* the i-th date has been processed, 1 <= temp_streak <= max_streak <= i;
\* and every result that is not None has 0 <= current_streak <= max_streak
\* <= number of distinct run dates <= total_activities, with max_streak >= 1.
C23_StreakBounds ==
    /\ (pc \in {"streak", "current", "favorite", "return", "done"}
          /\ dates # <<>> /\ i > 1) =>
            /\ 1 <= temp_streak
            /\ temp_streak <= max_streak
            /\ max_streak <= i - 1
            /\ i - 1 <= Len(dates)
    /\ result.kind = "stats" =>
            /\ 0 <= result.current_streak
            /\ result.current_streak <= result.max_streak
            /\ result.max_streak <= Cardinality(RunDays)
            /\ Cardinality(RunDays) <= result.total_activities
            /\ result.max_streak >= 1

\* C23 witness: four runs on three local dates, the last two dates
\* consecutive and the call made on the last of them or the day after:
\* current_streak = max_streak = 2 < 3 dates < 4 runs.
C23_Witness ==
    /\ result.kind = "stats"
    /\ result.current_streak = 2
    /\ result.max_streak = 2
    /\ Cardinality(RunDays) = 3
    /\ result.total_activities = 4

\* the entries of a monthly breakdown, whatever their order
MonthlySet(m) == {m[j] : j \in 1..Len(m)}

\* the entries of a monthly breakdown without the double, whatever their
\* order
MonthlyExact(m) ==
    {[key |-> m[j].key, distance |-> m[j].distance, count |-> m[j].count,
      time |-> m[j].time] : j \in 1..Len(m)}

\* a second call, on the same records in another order and on the same local
\* date as the first, has returned
PermutedDone == pc = "done" /\ first.kind = "stats" /\ today = first.today

\* C24: for two lists that are permutations of each other, evaluated on the
\* same date, analyze_wrapped_stats returns the same total distance, total
\* time, total_activities, per-month distance, count and time,
\* early_bird_count, night_owl_count, max_streak and current_streak.
C24_PermutationInvariant ==
    PermutedDone =>
        /\ result.kind = "stats"
        /\ result.total_distance = first.result.total_distance
        /\ result.total_time_hours = first.result.total_time_hours
        /\ result.total_activities = first.result.total_activities
        /\ MonthlySet(result.monthly_stats)
              = MonthlySet(first.result.monthly_stats)
        /\ result.early_bird_count = first.result.early_bird_count
        /\ result.night_owl_count = first.result.night_owl_count
        /\ result.max_streak = first.result.max_streak
        /\ result.current_streak = first.result.current_streak

\* the part of C24 that holds: everything but the per-month distance as the
\* double the code holds, which is replaced by the exact sum in metres
C24_InvariantApartFromRounding ==
    PermutedDone =>
        /\ result.kind = "stats"
        /\ result.total_distance = first.result.total_distance
        /\ result.total_time_hours = first.result.total_time_hours
        /\ result.total_activities = first.result.total_activities
        /\ MonthlyExact(result.monthly_stats)
              = MonthlyExact(first.result.monthly_stats)
        /\ result.early_bird_count = first.result.early_bird_count
        /\ result.night_owl_count = first.result.night_owl_count
        /\ result.max_streak = first.result.max_streak
        /\ result.current_streak = first.result.current_streak

\* the position in the input of the j-th run
RunPos(j) ==
    CHOOSE k \in RunIdx : Cardinality({m \in RunIdx : m <= k}) = j

MonthBefore(a, b) == a[1] < b[1] \/ (a[1] = b[1] /\ a[2] < b[2])

\* C26: the monthly breakdown returned by analyze_wrapped_stats iterates its
\* "YYYY-MM" keys in chronological order, for every input order of the runs.
C26_MonthlyKeysChronological ==
    result.kind = "stats" =>
        \A j \in 1..(Len(result.monthly_stats) - 1) :
            MonthBefore(result.monthly_stats[j].key,
                        result.monthly_stats[j + 1].key)

-----------------------------------------------------------------------------
(* get_stats_page (src/app.py, lines 921-980): the table of 2025 runs *)

\* a['start_date'].startswith('2025'): the string is the UTC form of the
\* instant, so its first four characters are the year of the UTC date
StartsWith2025(start_date) ==
    Civil(start_date.utc \div MinutesPerDay).year = 2025

\* the year test made on the IST date instead
IstDateIn2025(start_date) ==
    Civil(DateOf(utc_to_ist(start_date))).year = 2025

\* line 930
Runs2025(acts) ==
    SelectSeq(acts, LAMBDA a : a.type = "Run" /\ StartsWith2025(a.start_date))

RECURSIVE SortNewestFirst(_)
\* line 934: sort(key=start_date, reverse=True); ISO strings of one form order
\* as their instants do, and records with equal keys keep their order
SortNewestFirst(s) ==
    IF s = <<>> THEN <<>>
    ELSE LET k == CHOOSE k \in 1..Len(s) :
                    /\ \A j \in 1..Len(s) :
                          s[j].start_date.utc <= s[k].start_date.utc
                    /\ \A j \in 1..(k - 1) :
                          s[j].start_date.utc < s[k].start_date.utc
         IN  <<s[k]>> \o SortNewestFirst(SubSeq(s, 1, k - 1)
                                         \o SubSeq(s, k + 1, Len(s)))

\* lines 951-953: ist_dt.strftime('%Y-%m-%d %H:%M IST') as its five numbers
IstDisplay(start_date) ==
    LET ist_dt == utc_to_ist(start_date)
        d == Civil(DateOf(ist_dt))
    IN  <<d.year, d.month, d.day, HourOf(ist_dt), MinuteOf(ist_dt)>>

\* lines 949-980: the row of one run, its date cell and its name cell (the
\* distance, time and pace cells are computed from the record's own numbers
\* and are not kept); a start_date that does not parse gives the Error row
RowOf(run) ==
    IF run.start_date.iso
    THEN [date |-> IstDisplay(run.start_date), name |-> run.name]
    ELSE [date |-> <<>>, name |-> "Error in data"]

\* longest list get_all_activities hands to get_stats_page
MaxPageLen == 3

\* 2024-12-31T18:29Z and 18:30Z (IST midnight of 2025-01-01), 2025-01-10,
\* 2025-12-31T18:29Z and 23:00Z (IST 2026-01-01 04:30)
PageStamps ==
    {At(30, 18, 29), At(30, 18, 30), At(40, 1, 0), At(395, 18, 29),
     At(395, 23, 0)}

PageRecords ==
    {Activity("Run", Stamp(s), 5000, 1500, "run") : s \in PageStamps}
    \cup OtherActivities

\* line 921: get_all_activities returned a list
PageStart ==
    /\ ppc = "fetched"
    /\ page_activities \in SeqsUpTo(PageRecords, MaxPageLen)
    /\ runs_2025 = <<>>
    /\ table_rows = <<>>

\* lines 930-934
PageFilter ==
    /\ ppc = "fetched"
    /\ runs_2025' = SortNewestFirst(Runs2025(page_activities))
    /\ ppc' = "rows"
    /\ UNCHANGED <<page_activities, table_rows>>
    /\ UNCHANGED <<statsVars, callerVars, fetchVars, dashVars, userVars>>

\* lines 947-980: one iteration of the loop over runs_2025[:max_runs]
PageRow ==
    /\ ppc = "rows"
    /\ Len(table_rows) < Len(runs_2025)
    /\ table_rows' = Append(table_rows, RowOf(runs_2025[Len(table_rows) + 1]))
    /\ UNCHANGED <<ppc, page_activities, runs_2025>>
    /\ UNCHANGED <<statsVars, callerVars, fetchVars, dashVars, userVars>>

\* the loop is over: the page is rendered
PageRender ==
    /\ ppc = "rows"
    /\ Len(table_rows) = Len(runs_2025)
    /\ ppc' = "done"
    /\ UNCHANGED <<page_activities, runs_2025, table_rows>>
    /\ UNCHANGED <<statsVars, callerVars, fetchVars, dashVars, userVars>>

InitPage == PageStart /\ StatsIdle /\ FetchIdle /\ DashIdle /\ UsersIdle

NextPage == PageFilter \/ PageRow \/ PageRender

SpecPage == InitPage /\ [][NextPage]_vars

\* C27: when the page is rendered, every row shows an IST date of year 2025,
\* and every Run of the fetched list whose IST date is in 2025 is in runs_2025
C27_ListIsTheIst2025Runs ==
    ppc = "done" =>
        /\ \A k \in 1..Len(table_rows) : table_rows[k].date[1] = 2025
        /\ \A k \in 1..Len(page_activities) :
              (/\ page_activities[k].type = "Run"
               /\ IstDateIn2025(page_activities[k].start_date))
              => \E j \in 1..Len(runs_2025) : runs_2025[j] = page_activities[k]

-----------------------------------------------------------------------------
(* The "Longest Streak" loop of main (src/dashboard.py, lines 423-441) *)

\* line 433 keeping the streak as it was before line 432 counted the day
DashMaxBeforeCount(mx, cur, a, b) ==
    IF b - a = 1 THEN (IF cur > mx THEN cur ELSE mx) ELSE mx

\* lines 431-435: current_streak after the pair of dates a, b
DashCurrent(cur, a, b) == IF b - a = 1 THEN cur + 1 ELSE 1

\* lines 431-433: max_streak after the pair of dates a, b
DashMax(mx, cur, a, b) ==
    IF b - a = 1 THEN (IF cur + 1 > mx THEN cur + 1 ELSE mx) ELSE mx

\* longest list of runs whose dates both loops walk
MaxDashLen == 4

\* lines 425-428, on the sorted list of distinct dates that the loop of
\* analyze_wrapped_stats has walked (line 425: the frame is not empty)
DashStart ==
    /\ dpc = "idle"
    /\ pc = "done"
    /\ dates # <<>>
    /\ dash_dates' = dates
    /\ dash_current_streak' = 1
    /\ dash_max_streak' = 1
    /\ dash_i' = 2
    /\ dpc' = "loop"
    /\ UNCHANGED <<statsVars, callerVars, fetchVars, pageVars, userVars>>

\* lines 430-435: one iteration of the loop
DashStep ==
    /\ dpc = "loop"
    /\ dash_i <= Len(dash_dates)
    /\ dash_current_streak' =
          DashCurrent(dash_current_streak, dash_dates[dash_i - 1],
                      dash_dates[dash_i])
    /\ dash_max_streak' =
          DashMax(dash_max_streak, dash_current_streak,
                  dash_dates[dash_i - 1], dash_dates[dash_i])
    /\ dash_i' = dash_i + 1
    /\ UNCHANGED <<dpc, dash_dates>>
    /\ UNCHANGED <<statsVars, callerVars, fetchVars, pageVars, userVars>>

\* lines 437-441: the loop is over and the metrics are shown
DashShow ==
    /\ dpc = "loop"
    /\ dash_i > Len(dash_dates)
    /\ dpc' = "done"
    /\ UNCHANGED <<dash_dates, dash_i, dash_current_streak, dash_max_streak>>
    /\ UNCHANGED <<statsVars, callerVars, fetchVars, pageVars, userVars>>

InitDash ==
    /\ InitOn(SeqsUpTo(StreakRecords, MaxDashLen))
    /\ FetchIdle
    /\ MoreIdle

NextDash == Next \/ DashStart \/ DashStep \/ DashShow

SpecDash == InitDash /\ [][NextDash]_vars

\* C28: when the dashboard's loop has finished on a non-empty ascending list
\* of distinct dates, its max_streak is the max_streak that the loop of
\* analyze_wrapped_stats computed on the same list
C28_SameMaxStreak ==
    dpc = "done" =>
        /\ dash_dates = dates
        /\ dash_dates # <<>>
        /\ \A k \in 2..Len(dash_dates) : dash_dates[k - 1] < dash_dates[k]
        /\ dash_max_streak = max_streak

\* both loops have walked three or more dates with a gap after a streak of
\* two or more days
C28_Witness ==
    /\ dpc = "done"
    /\ Len(dash_dates) >= 3
    /\ \E k \in 3..Len(dash_dates) :
          /\ dash_dates[k - 1] - dash_dates[k - 2] = 1
          /\ dash_dates[k] - dash_dates[k - 1] > 1
    /\ dash_max_streak >= 2
    /\ dash_max_streak < Len(dash_dates)
    /\ max_streak = dash_max_streak

-----------------------------------------------------------------------------
(* The User model (src/models.py) *)

\* the rows of the table (primary keys, line 12)
UserIds == {1, 2}

\* the instants at which calls are made, in minutes: the start, seven hours
\* later (a six-hour token has expired), and the same two over 30 days later
Instants == {0, 420, 43201, 43621}

\* Python's None for a nullable column
Null == -1

\* lines 12-22: a row as the constructor and the column defaults make it
NewUser ==
    [password_hash |-> Null, access_token |-> Null, refresh_token |-> Null,
     token_expires_at |-> Null, last_active |-> 0, is_active |-> TRUE]

\* the arguments of update_tokens: the token pair of a Strava answer and its
\* expires_in, in seconds
TokenPairs == {<<1, 1>>, <<2, 2>>}

ExpiresIn == {DefaultExpiresIn}

\* the passwords given to set_password
Passwords == {1, 2}

\* generate_password_hash: a hash that check_password accepts for that
\* password and no other
generate_password_hash(password) == [of |-> password]

\* lines 37-40
is_token_expired(u) ==
    IF users[u].token_expires_at = Null THEN TRUE
    ELSE utcnow > users[u].token_expires_at

\* lines 65-69
get_active_user_count ==
    Cardinality({u \in UserIds : /\ users[u].is_active = TRUE
                                 /\ users[u].access_token # Null})

\* lines 56-62: the rows the query may return (0: None); rows with the same
\* last_active come in an order the database chooses
get_oldest_inactive_user(days_inactive) ==
    LET cutoff == utcnow - days_inactive * MinutesPerDay
        found == {u \in UserIds : /\ users[u].last_active < cutoff
                                  /\ users[u].is_active = TRUE}
    IN  IF found = {} THEN {0}
        ELSE {u \in found :
                \A v \in found : users[u].last_active <= users[v].last_active}

\* lines 30-35, with update_activity (lines 42-45) called at line 34
update_tokens ==
    \E u \in UserIds, t \in TokenPairs, expires_in \in ExpiresIn :
        /\ users' = [users EXCEPT
                       ![u].access_token = t[1],
                       ![u].refresh_token = t[2],
                       ![u].token_expires_at = utcnow + expires_in \div 60,
                       ![u].last_active = utcnow]
        /\ UNCHANGED utcnow
        /\ UNCHANGED <<statsVars, callerVars, fetchVars, pageVars, dashVars>>

\* lines 42-45
update_activity ==
    \E u \in UserIds :
        /\ users' = [users EXCEPT ![u].last_active = utcnow]
        /\ UNCHANGED utcnow
        /\ UNCHANGED <<statsVars, callerVars, fetchVars, pageVars, dashVars>>

\* lines 24-25
set_password ==
    \E u \in UserIds, password \in Passwords :
        /\ users' = [users EXCEPT
                       ![u].password_hash = generate_password_hash(password)]
        /\ UNCHANGED utcnow
        /\ UNCHANGED <<statsVars, callerVars, fetchVars, pageVars, dashVars>>

\* lines 47-53
deactivate ==
    \E u \in UserIds :
        /\ users' = [users EXCEPT
                       ![u].is_active = FALSE,
                       ![u].access_token = Null,
                       ![u].refresh_token = Null,
                       ![u].token_expires_at = Null]
        /\ UNCHANGED utcnow
        /\ UNCHANGED <<statsVars, callerVars, fetchVars, pageVars, dashVars>>

\* time passes between two calls
ClockPasses ==
    /\ utcnow' \in {t \in Instants : t > utcnow}
    /\ UNCHANGED users
    /\ UNCHANGED <<statsVars, callerVars, fetchVars, pageVars, dashVars>>

\* the rows have been created
UsersCreated ==
    /\ users = [u \in UserIds |-> NewUser]
    /\ utcnow = 0

InitUsers ==
    /\ UsersCreated
    /\ StatsIdle
    /\ FetchIdle
    /\ PageIdle
    /\ DashIdle

NextUsers ==
    update_tokens \/ update_activity \/ set_password \/ deactivate
    \/ ClockPasses

SpecUsers == InitUsers /\ [][NextUsers]_vars

\* C29: a deactivated user holds no Strava tokens, has an expired token, is
\* not counted by get_active_user_count and is not returned by
\* get_oldest_inactive_user
C29_DeactivatedHoldsNoTokens ==
    \A u \in UserIds :
        users[u].is_active = FALSE =>
            /\ users[u].access_token = Null
            /\ users[u].refresh_token = Null
            /\ users[u].token_expires_at = Null
            /\ is_token_expired(u)
            /\ get_active_user_count
                  = Cardinality({v \in UserIds \ {u} :
                                    /\ users[v].is_active = TRUE
                                    /\ users[v].access_token # Null})
            /\ u \notin get_oldest_inactive_user(30)

=============================================================================
